---- MODULE Spec2Model ----
(***************************************************************************)
(* QuickQL: the fluent SQL query builder of src/src/quickql/builder.py.    *)
(*                                                                         *)
(* Python strings are sequences of one-character strings, so that split,   *)
(* strip, dedent, indent, substring search and join are computed the way   *)
(* the code computes them.  A Python argument value is a record            *)
(*   [t |-> type name, v |-> payload]                                      *)
(* with v the characters of a str, the decimal digits of an int, the items *)
(* of a tuple or list, and <<>> for None.                                  *)
(***************************************************************************)
EXTENDS Naturals, Sequences, FiniteSets

VARIABLES clauses, other, returned, last, hist

vars == <<clauses, other, returned, last, hist>>

----------------------------------------------------------------------------
(* Python str methods used by the builder *)

SP == " "
NL == "\n"
TAB == "\t"

\* str.isspace() on one character, for the characters of the model's alphabet
IsSpace(c) == c \in {SP, NL, TAB}

UpperChars ==
    {"A","B","C","D","E","F","G","H","I","J","K","L","M",
     "N","O","P","Q","R","S","T","U","V","W","X","Y","Z"}

LowerChars ==
    {"a","b","c","d","e","f","g","h","i","j","k","l","m",
     "n","o","p","q","r","s","t","u","v","w","x","y","z"}

RECURSIVE lstrip(_)
lstrip(s) == IF s # <<>> /\ IsSpace(Head(s)) THEN lstrip(Tail(s)) ELSE s

RECURSIVE rstrip(_)
rstrip(s) ==
    IF s # <<>> /\ IsSpace(s[Len(s)]) THEN rstrip(SubSeq(s, 1, Len(s) - 1)) ELSE s

strip(s) == lstrip(rstrip(s))

\* sep.join(parts)
RECURSIVE join(_, _)
join(sep, parts) ==
    IF parts = <<>> THEN <<>>
    ELSE IF Len(parts) = 1 THEN parts[1]
    ELSE parts[1] \o sep \o join(sep, Tail(parts))

\* sub in s
Contains(sub, s) ==
    \E i \in 1..(Len(s) + 1) :
        /\ i + Len(sub) - 1 <= Len(s)
        /\ SubSeq(s, i, i + Len(sub) - 1) = sub

RECURSIVE SplitAcc(_, _, _, _)
SplitAcc(s, sep, cur, acc) ==
    IF s = <<>> THEN Append(acc, cur)
    ELSE IF Head(s) = sep THEN SplitAcc(Tail(s), sep, <<>>, Append(acc, cur))
    ELSE SplitAcc(Tail(s), sep, Append(cur, Head(s)), acc)

\* s.split("\n")
SplitNL(s) == SplitAcc(s, NL, <<>>, <<>>)

RECURSIVE WsSplitAcc(_, _, _)
WsSplitAcc(s, cur, acc) ==
    LET flushed == IF cur = <<>> THEN acc ELSE Append(acc, cur) IN
    IF s = <<>> THEN flushed
    ELSE IF IsSpace(Head(s)) THEN WsSplitAcc(Tail(s), <<>>, flushed)
    ELSE WsSplitAcc(Tail(s), Append(cur, Head(s)), acc)

\* s.split(): runs of whitespace separate, no empty token
split(s) == WsSplitAcc(s, <<>>, <<>>)

RECURSIVE KeepEndsAcc(_, _, _)
KeepEndsAcc(s, cur, acc) ==
    IF s = <<>> THEN (IF cur = <<>> THEN acc ELSE Append(acc, cur))
    ELSE IF Head(s) = NL THEN KeepEndsAcc(Tail(s), <<>>, Append(acc, Append(cur, NL)))
    ELSE KeepEndsAcc(Tail(s), Append(cur, Head(s)), acc)

\* s.splitlines(True)
splitlines_keepends(s) == KeepEndsAcc(s, <<>>, <<>>)

RECURSIVE ReplaceChar(_, _, _)
ReplaceChar(s, old, new) ==
    IF s = <<>> THEN <<>>
    ELSE <<IF Head(s) = old THEN new ELSE Head(s)>> \o ReplaceChar(Tail(s), old, new)

\* s.isupper(): no lower-case character and at least one upper-case character
isupper(s) ==
    /\ \A i \in 1..Len(s) : s[i] \notin LowerChars
    /\ \E i \in 1..Len(s) : s[i] \in UpperChars

----------------------------------------------------------------------------
(* textwrap.dedent and textwrap.indent *)

IsBlankLine(l) == \A i \in 1..Len(l) : l[i] \in {SP, TAB}

RECURSIVE LeadingWs(_)
LeadingWs(l) ==
    IF l # <<>> /\ Head(l) \in {SP, TAB} THEN <<Head(l)>> \o LeadingWs(Tail(l)) ELSE <<>>

RECURSIVE CommonPrefix(_, _)
CommonPrefix(a, b) ==
    IF a # <<>> /\ b # <<>> /\ Head(a) = Head(b)
    THEN <<Head(a)>> \o CommonPrefix(Tail(a), Tail(b))
    ELSE <<>>

RECURSIVE Margin(_)
Margin(indents) ==
    IF Len(indents) = 1 THEN indents[1]
    ELSE CommonPrefix(indents[1], Margin(Tail(indents)))

\* textwrap.dedent: whitespace-only lines become empty, then the longest
\* common leading run of blanks and tabs of the other lines is removed
dedent(text) ==
    LET raw     == SplitNL(text)
        lines   == [i \in 1..Len(raw) |-> IF IsBlankLine(raw[i]) THEN <<>> ELSE raw[i]]
        solid   == SelectSeq(lines, LAMBDA l : l # <<>>)
        indents == [i \in 1..Len(solid) |-> LeadingWs(solid[i])]
        margin  == IF solid = <<>> THEN <<>> ELSE Margin(indents)
        cut(l)  == IF l = <<>> THEN l ELSE SubSeq(l, Len(margin) + 1, Len(l))
    IN join(<<NL>>, [i \in 1..Len(lines) |-> cut(lines[i])])

\* textwrap.indent: the prefix goes before every line that is not
\* whitespace only
indent(text, prefix) ==
    LET lines == splitlines_keepends(text)
        put(l) == IF strip(l) # <<>> THEN prefix \o l ELSE l
    IN join(<<>>, [i \in 1..Len(lines) |-> put(lines[i])])

----------------------------------------------------------------------------
(* Python values *)

PyStr(chars) == [t |-> "str", v |-> chars]
PyInt(digits) == [t |-> "int", v |-> digits]
PyTuple(items) == [t |-> "tuple", v |-> items]
PyList(items) == [t |-> "list", v |-> items]
PyNone == [t |-> "NoneType", v |-> <<>>]

\* str(x), for the scalar values a fragment can hold
str(x) ==
    CASE x.t = "str" -> x.v
      [] x.t = "int" -> x.v
      [] x.t = "NoneType" -> <<"N","o","n","e">>

\* bool(x), as "if self.flag:" takes it
Truthy(x) ==
    CASE x.t = "NoneType" -> FALSE
      [] x.t = "str" -> x.v # <<>>

NoExc == "None"
UnsupportedClause == "ValueError: Unsupported SQL clause"
FlagConflict == "ValueError: Flag already set"
InvalidArgument == "ValueError: Invalid argument format"
IndexError == "IndexError: list index out of range"
AttributeError == "AttributeError"
TypeError == "TypeError: object is not callable"

----------------------------------------------------------------------------
(* class SQLKeyword(Enum), class SQLFlag(Enum) *)

\* the members in another order: SELECT and FROM change places
SQLKeywordOrder_swapped ==
    <<"WITH", "FROM", "SELECT", "WHERE", "GROUP_BY", "HAVING", "ORDER_BY", "LIMIT">>

\* the members in definition order, which is the order "for keyword in
\* SQLKeyword" iterates them
SQLKeywordOrder ==
    <<"WITH", "SELECT", "FROM", "WHERE", "GROUP_BY", "HAVING", "ORDER_BY", "LIMIT">>

SQLKeyword == {SQLKeywordOrder[i] : i \in 1..Len(SQLKeywordOrder)}

KeywordValue(k) ==
    CASE k = "WITH" -> <<"W","I","T","H">>
      [] k = "SELECT" -> <<"S","E","L","E","C","T">>
      [] k = "FROM" -> <<"F","R","O","M">>
      [] k = "WHERE" -> <<"W","H","E","R","E">>
      [] k = "GROUP_BY" -> <<"G","R","O","U","P"," ","B","Y">>
      [] k = "HAVING" -> <<"H","A","V","I","N","G">>
      [] k = "ORDER_BY" -> <<"O","R","D","E","R"," ","B","Y">>
      [] k = "LIMIT" -> <<"L","I","M","I","T">>

\* SQLKeyword(value): the member with that value, or ValueError
IsKeywordValue(s) == \E k \in SQLKeyword : KeywordValue(k) = s
KeywordOf(s) == CHOOSE k \in SQLKeyword : KeywordValue(k) = s

SQLFlag == {"DISTINCT", "ALL"}

FlagValue(f) ==
    CASE f = "DISTINCT" -> <<"D","I","S","T","I","N","C","T">>
      [] f = "ALL" -> <<"A","L","L">>

IsFlagValue(s) == \E f \in SQLFlag : FlagValue(f) = s
FlagOf(s) == CHOOSE f \in SQLFlag : FlagValue(f) = s

----------------------------------------------------------------------------
(* class Query: configuration *)

CLAUSE_SEPARATORS == [k \in {"WHERE", "HAVING"} |-> <<" ","A","N","D"," ">>]

DEFAULT_SEPARATOR == <<","," ">>

\* FLAGGABLE_KEYWORDS with FROM taking the flags of SELECT
FLAGGABLE_KEYWORDS_with_from == [k \in {"SELECT", "FROM"} |-> {"DISTINCT", "ALL"}]

FLAGGABLE_KEYWORDS == [k \in {"SELECT"} |-> {"DISTINCT", "ALL"}]

\* SUBQUERY_KEYWORDS with FROM among the keywords whose elements are wrapped
SUBQUERY_KEYWORDS_with_from == {"WITH", "FROM"}

SUBQUERY_KEYWORDS == {"WITH"}

\* the dict in insertion order, which is the order .items() iterates it
JOIN_ALIASES ==
    << [join_type |-> <<"J","O","I","N">>, actual_clause |-> <<"F","R","O","M">>],
       [join_type |-> <<"I","N","N","E","R"," ","J","O","I","N">>, actual_clause |-> <<"F","R","O","M">>],
       [join_type |-> <<"L","E","F","T"," ","J","O","I","N">>, actual_clause |-> <<"F","R","O","M">>],
       [join_type |-> <<"R","I","G","H","T"," ","J","O","I","N">>, actual_clause |-> <<"F","R","O","M">>],
       [join_type |-> <<"F","U","L","L"," ","J","O","I","N">>, actual_clause |-> <<"F","R","O","M">>],
       [join_type |-> <<"C","R","O","S","S"," ","J","O","I","N">>, actual_clause |-> <<"F","R","O","M">>] >>

\* the upper-case names that are real members of the class, found by the
\* normal attribute lookup before __getattr__ is tried
ClassAttributes ==
    { <<"C","L","A","U","S","E","_","S","E","P","A","R","A","T","O","R","S">>,
      <<"D","E","F","A","U","L","T","_","S","E","P","A","R","A","T","O","R">>,
      <<"F","L","A","G","G","A","B","L","E","_","K","E","Y","W","O","R","D","S">>,
      <<"S","U","B","Q","U","E","R","Y","_","K","E","Y","W","O","R","D","S">>,
      <<"J","O","I","N","_","A","L","I","A","S","E","S">> }

----------------------------------------------------------------------------
(* _normalize_sql, _indent_text *)

\* _normalize_sql without the final strip()
normalize_sql_unstripped(text) == dedent(rstrip(str(text)))

normalize_sql(text) == strip(dedent(rstrip(str(text))))

Spaces4 == <<SP, SP, SP, SP>>

indent_text(text) == indent(text, Spaces4)

----------------------------------------------------------------------------
(* class QueryElement, class ClauseCollection *)

NoElement == [value |-> <<>>, alias |-> <<>>, join_keyword |-> <<>>, is_subquery |-> FALSE]

\* QueryElement.create(arg, join_keyword=..., is_subquery=...)
create(arg, join_keyword, is_subquery) ==
    IF arg.t = "str"
    THEN [exc |-> NoExc,
          element |-> [value |-> normalize_sql(arg), alias |-> <<>>,
                       join_keyword |-> join_keyword, is_subquery |-> is_subquery]]
    ELSE IF arg.t \in {"list", "tuple"} /\ Len(arg.v) = 2
    THEN [exc |-> NoExc,
          element |-> [value |-> normalize_sql(arg.v[2]), alias |-> normalize_sql(arg.v[1]),
                       join_keyword |-> join_keyword, is_subquery |-> is_subquery]]
    ELSE [exc |-> InvalidArgument, element |-> NoElement]

\* ClauseCollection.__init__
EmptyCollection == [elements |-> <<>>, flag |-> PyNone]

\* add_element putting the element first: elements.insert(0, element)
add_element_first(collection, element) ==
    [collection EXCEPT !.elements = <<element>> \o @]

\* add_element keeping the new element only
add_element_replacing(collection, element) ==
    [collection EXCEPT !.elements = <<element>>]

\* ClauseCollection.add_element
add_element(collection, element) ==
    [collection EXCEPT !.elements = Append(@, element)]

\* set_flag without the check: the new flag replaces the old one
set_flag_overwriting(collection, flag) ==
    [exc |-> NoExc, collection |-> [collection EXCEPT !.flag = PyStr(flag)]]

\* ClauseCollection.set_flag
set_flag(collection, flag) ==
    IF Truthy(collection.flag)
    THEN [exc |-> FlagConflict, collection |-> collection]
    ELSE [exc |-> NoExc, collection |-> [collection EXCEPT !.flag = PyStr(flag)]]

\* is_empty taking a store with a flag for a store that holds something
is_empty_unflagged(collection) ==
    Len(collection.elements) = 0 /\ ~Truthy(collection.flag)

\* ClauseCollection.is_empty
is_empty(collection) == Len(collection.elements) = 0

----------------------------------------------------------------------------
(* class Query: add *)

\* Query.__init__
NewClauses == [keyword \in SQLKeyword |-> EmptyCollection]

RECURSIVE FirstJoinAlias(_, _)
FirstJoinAlias(clause_name, i) ==
    IF i > Len(JOIN_ALIASES) THEN 0
    ELSE IF Contains(JOIN_ALIASES[i].join_type, clause_name) THEN i
    ELSE FirstJoinAlias(clause_name, i + 1)

\* _resolve_join_alias tagging with the marker found, not with the name
resolve_join_alias_marker(clause_name) ==
    LET i == FirstJoinAlias(clause_name, 1) IN
    IF i # 0
    THEN [actual_clause |-> JOIN_ALIASES[i].actual_clause,
          join_keyword |-> JOIN_ALIASES[i].join_type]
    ELSE [actual_clause |-> clause_name, join_keyword |-> <<>>]

\* Query._resolve_join_alias
resolve_join_alias(clause_name) ==
    LET i == FirstJoinAlias(clause_name, 1) IN
    IF i # 0
    THEN [actual_clause |-> JOIN_ALIASES[i].actual_clause, join_keyword |-> clause_name]
    ELSE [actual_clause |-> clause_name, join_keyword |-> <<>>]

\* _parse_flag taking a flag behind any keyword, registered for it or not
parse_flag_any_keyword(clause_name) ==
    LET parts == split(clause_name) IN
    IF Len(parts) = 1 THEN [exc |-> NoExc, clause |-> clause_name, flag |-> <<>>]
    ELSE IF Len(parts) < 2 THEN [exc |-> IndexError, clause |-> clause_name, flag |-> <<>>]
    ELSE LET base_clause    == parts[1]
             potential_flag == parts[2]
         IN IF IsKeywordValue(base_clause) /\ IsFlagValue(potential_flag)
            THEN [exc |-> NoExc, clause |-> base_clause, flag |-> potential_flag]
            ELSE [exc |-> NoExc, clause |-> clause_name, flag |-> <<>>]

\* _parse_flag reading every name of two tokens as keyword and flag
parse_flag_split(clause_name) ==
    LET parts == split(clause_name) IN
    IF Len(parts) = 1 THEN [exc |-> NoExc, clause |-> clause_name, flag |-> <<>>]
    ELSE IF Len(parts) < 2 THEN [exc |-> IndexError, clause |-> clause_name, flag |-> <<>>]
    ELSE [exc |-> NoExc, clause |-> parts[1], flag |-> parts[2]]

\* Query._parse_flag
parse_flag(clause_name) ==
    LET parts == split(clause_name) IN
    IF Len(parts) = 1 THEN [exc |-> NoExc, clause |-> clause_name, flag |-> <<>>]
    ELSE IF Len(parts) < 2 THEN [exc |-> IndexError, clause |-> clause_name, flag |-> <<>>]
    ELSE LET base_clause    == parts[1]
             potential_flag == parts[2]
         IN IF /\ IsKeywordValue(base_clause)
               /\ KeywordOf(base_clause) \in DOMAIN FLAGGABLE_KEYWORDS
               /\ IsFlagValue(potential_flag)
               /\ FlagOf(potential_flag) \in FLAGGABLE_KEYWORDS[KeywordOf(base_clause)]
            THEN [exc |-> NoExc, clause |-> base_clause, flag |-> potential_flag]
            ELSE [exc |-> NoExc, clause |-> clause_name, flag |-> <<>>]

\* the loop "for arg in args" of Query.add: each fragment is created and
\* appended in turn, and the loop ends at the first fragment create rejects
RECURSIVE add_elements(_, _, _, _)
add_elements(collection, args, join_keyword, is_subquery) ==
    IF args = <<>> THEN [exc |-> NoExc, collection |-> collection]
    ELSE LET made == create(Head(args), join_keyword, is_subquery) IN
         IF made.exc # NoExc THEN [exc |-> made.exc, collection |-> collection]
         ELSE add_elements(add_element(collection, made.element), Tail(args),
                           join_keyword, is_subquery)

\* add appending the fragments before it sets the flag
add_flag_last(cl, clause_name, args) ==
    LET resolved == resolve_join_alias(clause_name)
        parsed   == parse_flag(resolved.actual_clause)
    IN IF parsed.exc # NoExc THEN [exc |-> parsed.exc, clauses |-> cl]
       ELSE IF ~IsKeywordValue(parsed.clause) THEN [exc |-> UnsupportedClause, clauses |-> cl]
       ELSE LET keyword == KeywordOf(parsed.clause)
                done    == add_elements(cl[keyword], args, resolved.join_keyword,
                                        keyword \in SUBQUERY_KEYWORDS)
                flagged == IF done.exc = NoExc /\ parsed.flag # <<>>
                           THEN set_flag(done.collection, parsed.flag)
                           ELSE [exc |-> done.exc, collection |-> done.collection]
            IN [exc |-> flagged.exc,
                clauses |-> [cl EXCEPT ![keyword] = flagged.collection]]

\* add setting the flag only when the call carries fragments
add_flag_with_fragments(cl, clause_name, args) ==
    LET resolved == resolve_join_alias(clause_name)
        parsed   == parse_flag(resolved.actual_clause)
    IN IF parsed.exc # NoExc THEN [exc |-> parsed.exc, clauses |-> cl]
       ELSE IF ~IsKeywordValue(parsed.clause) THEN [exc |-> UnsupportedClause, clauses |-> cl]
       ELSE LET keyword == KeywordOf(parsed.clause)
                flagged == IF parsed.flag # <<>> /\ args # <<>>
                           THEN set_flag(cl[keyword], parsed.flag)
                           ELSE [exc |-> NoExc, collection |-> cl[keyword]]
            IN IF flagged.exc # NoExc THEN [exc |-> flagged.exc, clauses |-> cl]
               ELSE LET done == add_elements(flagged.collection, args,
                                             resolved.join_keyword,
                                             keyword \in SUBQUERY_KEYWORDS)
                    IN [exc |-> done.exc,
                        clauses |-> [cl EXCEPT ![keyword] = done.collection]]

\* Query.add: the exception it raises (NoExc when it returns self) and the
\* stores it leaves behind
add(cl, clause_name, args) ==
    LET resolved == resolve_join_alias(clause_name)
        parsed   == parse_flag(resolved.actual_clause)
    IN IF parsed.exc # NoExc THEN [exc |-> parsed.exc, clauses |-> cl]
       ELSE IF ~IsKeywordValue(parsed.clause) THEN [exc |-> UnsupportedClause, clauses |-> cl]
       ELSE LET keyword == KeywordOf(parsed.clause)
                flagged == IF parsed.flag # <<>>
                           THEN set_flag(cl[keyword], parsed.flag)
                           ELSE [exc |-> NoExc, collection |-> cl[keyword]]
            IN IF flagged.exc # NoExc THEN [exc |-> flagged.exc, clauses |-> cl]
               ELSE LET done == add_elements(flagged.collection, args,
                                             resolved.join_keyword,
                                             keyword \in SUBQUERY_KEYWORDS)
                    IN [exc |-> done.exc,
                        clauses |-> [cl EXCEPT ![keyword] = done.collection]]

\* __getattr__ without the isupper test: every name becomes a clause name
getattr_call_unchecked(cl, name, args) ==
    IF name \in ClassAttributes THEN [exc |-> TypeError, clauses |-> cl]
    ELSE add(cl, ReplaceChar(name, "_", SP), args)

\* Query.__getattr__ followed by the call of what it returns
getattr_call(cl, name, args) ==
    IF name \in ClassAttributes THEN [exc |-> TypeError, clauses |-> cl]
    ELSE IF isupper(name) THEN add(cl, ReplaceChar(name, "_", SP), args)
    ELSE [exc |-> AttributeError, clauses |-> cl]

----------------------------------------------------------------------------
(* class Query: build *)

RECURSIVE GroupIndex(_, _, _)
GroupIndex(groups, key, i) ==
    IF i > Len(groups) THEN 0
    ELSE IF groups[i].key = key THEN i
    ELSE GroupIndex(groups, key, i + 1)

\* Query._group_elements_by_join: the dict as the sequence of its items in
\* insertion order
RECURSIVE GroupAcc(_, _)
GroupAcc(elements, groups) ==
    IF elements = <<>> THEN groups
    ELSE LET join_key == Head(elements).join_keyword
             known    == GroupIndex(groups, join_key, 1)
             opened   == IF known = 0
                         THEN Append(groups, [key |-> join_key, elements |-> <<>>])
                         ELSE groups
             at       == IF known = 0 THEN Len(opened) ELSE known
         IN GroupAcc(Tail(elements),
                     [opened EXCEPT ![at].elements = Append(@, Head(elements))])

\* _group_elements_by_join without the default group: groups = {}
group_elements_by_join_bare(elements) == GroupAcc(elements, <<>>)

\* _group_elements_by_join with groups[join_key] = [element] in place of
\* the append: a group keeps its last element only
group_elements_by_join_last(elements) ==
    LET groups == GroupAcc(elements, <<[key |-> <<>>, elements |-> <<>>]>>)
    IN [i \in 1..Len(groups) |->
           [groups[i] EXCEPT !.elements = IF @ = <<>> THEN @ ELSE <<@[Len(@)]>>]]

group_elements_by_join(elements) ==
    GroupAcc(elements, <<[key |-> <<>>, elements |-> <<>>]>>)

\* _format_element putting the value first under every keyword
format_element_value_first(keyword, element) ==
    LET value == IF element.is_subquery
                 THEN <<"(", NL>> \o indent_text(element.value) \o <<NL, ")">>
                 ELSE element.value
    IN IF element.alias # <<>>
       THEN value \o <<" ","A","S"," ">> \o element.alias
       ELSE value

\* _format_element wrapping a subquery without indenting its text
format_element_flat(keyword, element) ==
    LET value == IF element.is_subquery
                 THEN <<"(", NL>> \o element.value \o <<NL, ")">>
                 ELSE element.value
    IN IF element.alias # <<>>
       THEN IF keyword = "WITH"
            THEN element.alias \o <<" ","A","S"," ">> \o value
            ELSE value \o <<" ","A","S"," ">> \o element.alias
       ELSE value

\* Query._format_element
format_element(keyword, element) ==
    LET value == IF element.is_subquery
                 THEN <<"(", NL>> \o indent_text(element.value) \o <<NL, ")">>
                 ELSE element.value
    IN IF element.alias # <<>>
       THEN IF keyword = "WITH"
            THEN element.alias \o <<" ","A","S"," ">> \o value
            ELSE value \o <<" ","A","S"," ">> \o element.alias
       ELSE value

\* the default separator for every keyword
separator_default(keyword) == DEFAULT_SEPARATOR

\* CLAUSE_SEPARATORS.get(keyword, DEFAULT_SEPARATOR)
separator(keyword) ==
    IF keyword \in DOMAIN CLAUSE_SEPARATORS THEN CLAUSE_SEPARATORS[keyword]
    ELSE DEFAULT_SEPARATOR

\* the lines one join group adds to sql_parts
group_parts(keyword, group) ==
    LET formatted == [i \in 1..Len(group.elements) |->
                        format_element(keyword, group.elements[i])]
    IN (IF group.key # <<>> THEN <<group.key>> ELSE <<>>)
       \o <<indent_text(join(separator(keyword), formatted))>>

RECURSIVE groups_parts(_, _)
groups_parts(keyword, groups) ==
    IF groups = <<>> THEN <<>>
    ELSE group_parts(keyword, Head(groups)) \o groups_parts(keyword, Tail(groups))

\* clause_parts writing the bare keyword whether a flag is set or not
clause_parts_unflagged(cl, keyword) ==
    LET clause == cl[keyword] IN
    IF is_empty(clause) THEN <<>>
    ELSE <<KeywordValue(keyword)>>
         \o groups_parts(keyword, group_elements_by_join(clause.elements))

\* the lines one keyword adds to sql_parts
clause_parts(cl, keyword) ==
    LET clause == cl[keyword] IN
    IF is_empty(clause) THEN <<>>
    ELSE <<IF Truthy(clause.flag)
           THEN KeywordValue(keyword) \o <<SP>> \o clause.flag.v
           ELSE KeywordValue(keyword)>>
         \o groups_parts(keyword, group_elements_by_join(clause.elements))

RECURSIVE sql_parts(_, _)
sql_parts(cl, order) ==
    IF order = <<>> THEN <<>>
    ELSE clause_parts(cl, Head(order)) \o sql_parts(cl, Tail(order))

\* Query.build
build(cl) == join(<<NL>>, sql_parts(cl, SQLKeywordOrder))

----------------------------------------------------------------------------
(* Two builders, q = Query() and p = Query(), as a state machine.  The     *)
(* specifications Spec, SpecJoin and SpecErr call q only.                  *)
(*   clauses   Query._clauses of the builder q                             *)
(*   other     Query._clauses of the builder p                             *)
(*   returned  the builder the last call returned: "q", "p", or NoObject   *)
(*             when it raised or returned a string                         *)
(*   last      the last operation: the builder it was called on, its name, *)
(*             its arguments, the exception it raised, the string it       *)
(*             returned, the stores of its builder before it, and whether  *)
(*             the operation before it was a build or str too              *)
(*   hist      the add and accessor calls made so far, in call order       *)

Builders == {"q", "p"}
NoObject == "none"

Init ==
    /\ clauses = NewClauses
    /\ other = NewClauses
    /\ returned = NoObject
    /\ last = [on |-> "q", op |-> "init", name |-> <<>>, args |-> <<>>, exc |-> NoExc,
               ret |-> <<>>, before |-> NewClauses, repeated |-> FALSE]
    /\ hist = <<>>

\* self._clauses of builder b
StoresOf(b) == IF b = "q" THEN clauses ELSE other

\* "return self" of add without the return: the call returns None
return_self_missing(self, exc) == NoObject

\* "return self" at the end of add, reached when nothing was raised
return_self(self, exc) == IF exc = NoExc THEN self ELSE NoObject

\* a call on b that writes the stores of both builders, as if _clauses
\* were one dict of the class
AfterCallOn_shared(b, op, c, done) ==
    /\ clauses' = done.clauses
    /\ other' = done.clauses
    /\ returned' = return_self(b, done.exc)
    /\ last' = [on |-> b, op |-> op, name |-> c.name, args |-> c.args,
                exc |-> done.exc, ret |-> <<>>, before |-> StoresOf(b),
                repeated |-> FALSE]
    /\ hist' = Append(hist, [on |-> b, op |-> op, name |-> c.name, args |-> c.args,
                             exc |-> done.exc])

\* the state after a call of add or of an accessor on builder b; done is
\* what the call did to the stores of b
AfterCallOn(b, op, c, done) ==
    /\ IF b = "q" THEN clauses' = done.clauses /\ other' = other
                  ELSE other' = done.clauses /\ clauses' = clauses
    /\ returned' = return_self(b, done.exc)
    /\ last' = [on |-> b, op |-> op, name |-> c.name, args |-> c.args,
                exc |-> done.exc, ret |-> <<>>, before |-> StoresOf(b),
                repeated |-> FALSE]
    /\ hist' = Append(hist, [on |-> b, op |-> op, name |-> c.name, args |-> c.args,
                             exc |-> done.exc])

\* the state after a call on q
AfterCall(op, c, done) == AfterCallOn("q", op, c, done)

\* q.add(clause_name, *args), at most bound calls in a run
Add(calls, bound) ==
    /\ Len(hist) < bound
    /\ \E c \in calls : AfterCall("add", c, add(clauses, c.name, c.args))

\* q.NAME(*args), at most bound calls in a run
Fluent(calls, bound) ==
    /\ Len(hist) < bound
    /\ \E c \in calls : AfterCall("getattr", c, getattr_call(clauses, c.name, c.args))

\* a build that uses the stores up while it renders them
Build_consuming ==
    /\ last' = [on |-> "q", op |-> "build", name |-> <<>>, args |-> <<>>, exc |-> NoExc,
                ret |-> build(clauses), before |-> clauses,
                repeated |-> last.op \in {"build", "str"}]
    /\ clauses' = NewClauses
    /\ returned' = NoObject
    /\ UNCHANGED <<other, hist>>

\* q.build()
Build ==
    /\ last' = [on |-> "q", op |-> "build", name |-> <<>>, args |-> <<>>, exc |-> NoExc,
                ret |-> build(clauses), before |-> clauses,
                repeated |-> last.op \in {"build", "str"}]
    /\ returned' = NoObject
    /\ UNCHANGED <<clauses, other, hist>>

\* str(q): Query.__str__ returns self.build()
Str ==
    /\ last' = [on |-> "q", op |-> "str", name |-> <<>>, args |-> <<>>, exc |-> NoExc,
                ret |-> build(clauses), before |-> clauses,
                repeated |-> last.op \in {"build", "str"}]
    /\ returned' = NoObject
    /\ UNCHANGED <<clauses, other, hist>>

----------------------------------------------------------------------------
(* Fragments and calls the specifications draw from.  Fragment texts are   *)
(* lower-case letters and aliases are digits, which tells them apart from  *)
(* the keywords, flags and join markers in the output.                     *)

fa == PyStr(<<"a">>)
fb == PyStr(<<"b">>)
fc == PyStr(<<"c">>)
f1a == PyTuple(<<PyStr(<<"1">>), PyStr(<<"a">>)>>)
f2b == PyTuple(<<PyStr(<<"2">>), PyStr(<<"b">>)>>)

Call(name, args) == [name |-> name, args |-> args]

\* Spec: calls over every keyword, a flag and a join marker
MaxCalls == 2

RenderAdds ==
    { Call(<<"W","I","T","H">>, <<f1a, fb>>),
      Call(<<"S","E","L","E","C","T">>, <<fa>>),
      Call(<<"S","E","L","E","C","T"," ","D","I","S","T","I","N","C","T">>, <<fb, fc>>),
      Call(<<"S","E","L","E","C","T"," ","A","L","L">>, <<>>),
      Call(<<"F","R","O","M">>, <<fa, f2b>>),
      Call(<<"W","H","E","R","E">>, <<fa, fb>>),
      Call(<<"W","H","E","R","E">>, <<fc>>),
      Call(<<"H","A","V","I","N","G">>, <<fa, fb>>),
      Call(<<"L","I","M","I","T">>, <<fa, fb>>) }

RenderFluents ==
    { Call(<<"G","R","O","U","P","_","B","Y">>, <<fa, fb>>),
      Call(<<"O","R","D","E","R","_","B","Y">>, <<f1a, fb>>),
      Call(<<"L","E","F","T","_","J","O","I","N">>, <<fb, fc>>) }

Next ==
    \/ Add(RenderAdds, MaxCalls)
    \/ Fluent(RenderFluents, MaxCalls)
    \/ Build
    \/ Str

Spec == Init /\ [][Next]_vars

\* SpecJoin: calls that fill the FROM store with and without join markers
MaxJoinCalls == 3

JoinAdds ==
    { Call(<<"F","R","O","M">>, <<fa>>),
      Call(<<"F","R","O","M">>, <<fb, fc>>),
      Call(<<"L","E","F","T"," ","J","O","I","N">>, <<fb>>),
      Call(<<"N","A","T","U","R","A","L"," ","J","O","I","N"," ","x">>, <<fc, fa>>),
      Call(<<"W","H","E","R","E">>, <<fa>>) }

JoinFluents ==
    { Call(<<"J","O","I","N">>, <<fc>>),
      Call(<<"L","E","F","T","_","J","O","I","N">>, <<f1a, fc>>) }

NextJoin ==
    \/ Add(JoinAdds, MaxJoinCalls)
    \/ Fluent(JoinFluents, MaxJoinCalls)
    \/ Build
    \/ Str

SpecJoin == Init /\ [][NextJoin]_vars

\* SpecErr: calls that add rejects, among calls it accepts
MaxErrCalls == 2

ErrAdds ==
    { Call(<<"S","E","L","E","C","T">>, <<fa>>),
      Call(<<"S","E","L","E","C","T">>, <<fa, PyInt(<<"5">>), fb>>),
      Call(<<"S","E","L","E","C","T"," ","D","I","S","T","I","N","C","T">>, <<fb>>),
      Call(<<"S","E","L","E","C","T"," ","A","L","L">>, <<fc>>),
      Call(<<"S","E","L","E","C","T"," ","A","L","L">>, <<PyNone>>),
      Call(<<"S","E","L","E","C","T">>, <<PyTuple(<<PyStr(<<"1">>), PyNone>>)>>),
      Call(<<"F","R","O","M">>, <<PyTuple(<<PyNone, PyStr(<<"a">>)>>)>>),
      Call(<<"F","R","O","M">>, <<PyTuple(<<>>)>>),
      Call(<<"W","H","E","R","E">>, <<fa, PyTuple(<<fa, fb, fc>>)>>),
      Call(<<"L","E","F","T"," ","J","O","I","N">>, <<fb, PyList(<<fa>>)>>),
      Call(<<>>, <<fa>>),
      Call(<<" ">>, <<fa>>),
      Call(<<"s","e","l","e","c","t">>, <<fa>>),
      Call(<<"M","E","R","G","E">>, <<fa>>),
      Call(<<"F","R","O","M"," ","D","I","S","T","I","N","C","T">>, <<fa>>),
      Call(<<"W","H","E","R","E"," ","A","L","L">>, <<fb>>),
      Call(<<"S","E","L","E","C","T"," ","D","I","S","T","I","N","C","T"," ","x">>, <<fa>>) }

ErrFluents ==
    { Call(<<"S","E","L","E","C","T","_","D","I","S","T","I","N","C","T">>, <<fa>>),
      Call(<<"S","E","L","E","C","T","_","D","I","S","T","I","N","C","T">>, <<>>),
      Call(<<"U","P","S","E","R","T">>, <<fa>>),
      Call(<<"M","i","x","e","d","_","C","a","s","e">>, <<fa>>),
      Call(<<"s","e","l","e","c","t">>, <<fa>>),
      Call(<<"J","O","I","N","_","A","L","I","A","S","E","S">>, <<fa>>) }

NextErr ==
    \/ Add(ErrAdds, MaxErrCalls)
    \/ Fluent(ErrFluents, MaxErrCalls)
    \/ Build
    \/ Str

SpecErr == Init /\ [][NextErr]_vars

\* SpecTwo: calls on the two builders in any interleaving, and calls
\* chained onto the builder the call before returned
MaxTwoCalls == 3

TwoAdds ==
    { Call(<<"S","E","L","E","C","T">>, <<fa>>),
      Call(<<"S","E","L","E","C","T"," ","D","I","S","T","I","N","C","T">>, <<fb>>),
      Call(<<"L","E","F","T"," ","J","O","I","N">>, <<fc>>) }

TwoFluents ==
    { Call(<<"W","H","E","R","E">>, <<f1a, fc>>) }

\* b.add(clause_name, *args)
AddOn(calls, bound) ==
    /\ Len(hist) < bound
    /\ \E b \in Builders : \E c \in calls :
          AfterCallOn(b, "add", c, add(StoresOf(b), c.name, c.args))

\* b.NAME(*args)
FluentOn(calls, bound) ==
    /\ Len(hist) < bound
    /\ \E b \in Builders : \E c \in calls :
          AfterCallOn(b, "getattr", c, getattr_call(StoresOf(b), c.name, c.args))

\* the next call of a chain b.add(...).add(...) or b.NAME(...).NAME(...):
\* a call on the object the call before it returned
Chained(adds, fluents, bound) ==
    /\ Len(hist) < bound
    /\ returned \in Builders
    /\ \/ \E c \in adds :
             AfterCallOn(returned, "add", c, add(StoresOf(returned), c.name, c.args))
       \/ \E c \in fluents :
             AfterCallOn(returned, "getattr", c,
                         getattr_call(StoresOf(returned), c.name, c.args))

\* b.build()
BuildOn ==
    \E b \in Builders :
        /\ last' = [on |-> b, op |-> "build", name |-> <<>>, args |-> <<>>,
                    exc |-> NoExc, ret |-> build(StoresOf(b)), before |-> StoresOf(b),
                    repeated |-> last.op \in {"build", "str"}]
        /\ returned' = NoObject
        /\ UNCHANGED <<clauses, other, hist>>

NextTwo ==
    \/ AddOn(TwoAdds, MaxTwoCalls)
    \/ FluentOn(TwoFluents, MaxTwoCalls)
    \/ Chained(TwoAdds, TwoFluents, MaxTwoCalls)
    \/ BuildOn

SpecTwo == Init /\ [][NextTwo]_vars

\* SpecText: the keywords of two words, and fragments of several lines,
\* with indentation, surrounding whitespace and a blank line inside
MaxTextCalls == 2

tIndented == PyStr(<<SP, SP, "a", NL, SP, SP, SP, SP, "b">>)
tBlank == PyStr(<<"a", NL, NL, "b">>)
tPadded == PyStr(<<SP, "c", SP>>)
pIndented == PyTuple(<<PyStr(<<"1">>), tIndented>>)
pPadded == PyTuple(<<PyStr(<<SP, "2", SP>>), PyStr(<<NL, SP, SP, "a", NL, SP, SP, "b", NL>>)>>)

TextAdds ==
    { Call(<<"W","I","T","H">>, <<pIndented, fc>>),
      Call(<<"S","E","L","E","C","T">>, <<tPadded, pPadded>>),
      Call(<<"W","H","E","R","E">>, <<tBlank, fc>>),
      Call(<<"L","E","F","T"," ","J","O","I","N">>, <<tIndented>>),
      Call(<<"G","R","O","U","P"," ","B","Y">>, <<fa>>),
      Call(<<"O","R","D","E","R"," ","B","Y">>, <<f1a, fb>>) }

TextFluents ==
    { Call(<<"F","R","O","M">>, <<fa>>),
      Call(<<"G","R","O","U","P","_","B","Y">>, <<fb>>),
      Call(<<"O","R","D","E","R","_","B","Y">>, <<fc>>) }

NextText ==
    \/ Add(TextAdds, MaxTextCalls)
    \/ Fluent(TextFluents, MaxTextCalls)
    \/ Build
    \/ Str

SpecText == Init /\ [][NextText]_vars

----------------------------------------------------------------------------
(* Reading a call and the output of build, for the properties below *)

IsCall(l) == l.op \in {"add", "getattr"}
IsRender(l) == l.op \in {"build", "str"}

\* the clause name add receives: an accessor replaces '_' by ' '
ClauseNameOf(c) == IF c.op = "getattr" THEN ReplaceChar(c.name, "_", SP) ELSE c.name

\* the keyword whose store an accepted call appends to
TargetOf(c) ==
    KeywordOf(parse_flag(resolve_join_alias(ClauseNameOf(c)).actual_clause).clause)

AllAccepted(h) == \A i \in 1..Len(h) : h[i].exc = NoExc

ApplyCall(cl, c) ==
    IF c.op = "add" THEN add(cl, c.name, c.args).clauses
    ELSE getattr_call(cl, c.name, c.args).clauses

\* the stores after the calls of h, made in that order on a new builder
RECURSIVE Replay(_, _)
Replay(cl, h) == IF h = <<>> THEN cl ELSE Replay(ApplyCall(cl, Head(h)), Tail(h))

\* the calls regrouped keyword by keyword in the given keyword order, the
\* calls of one keyword staying in their order; calls as Summary gives them
RECURSIVE Regrouped(_, _)
Regrouped(calls, order) ==
    IF order = <<>> THEN <<>>
    ELSE SelectSeq(calls, LAMBDA c : c.target = Head(order))
         \o Regrouped(calls, Tail(order))

\* the lines of an output, cut at its newlines; the empty output has none
LinesOf(out) ==
    IF out = <<>> THEN <<>>
    ELSE LET cuts   == {i \in 1..Len(out) : out[i] = NL}
             n      == Cardinality(cuts)
             Cut(j) == IF j = 0 THEN 0
                       ELSE IF j = n + 1 THEN Len(out) + 1
                       ELSE CHOOSE p \in cuts : Cardinality({q \in cuts : q < p}) = j - 1
         IN [j \in 1..(n + 1) |-> SubSeq(out, Cut(j - 1) + 1, Cut(j) - 1)]

HeaderLines(k) ==
    {KeywordValue(k)} \cup {KeywordValue(k) \o <<SP>> \o FlagValue(f) : f \in SQLFlag}

AllHeaderLines == UNION {HeaderLines(k) : k \in SQLKeyword}

HeaderKeyword(l) == CHOOSE k \in SQLKeyword : l \in HeaderLines(k)

\* the keywords of the keyword lines of an output, in output order
KeywordLines(out) ==
    LET heads == SelectSeq(LinesOf(out), LAMBDA l : l \in AllHeaderLines)
    IN [i \in 1..Len(heads) |-> HeaderKeyword(heads[i])]

EnumerationOrder ==
    <<"WITH", "SELECT", "FROM", "WHERE", "GROUP_BY", "HAVING", "ORDER_BY", "LIMIT">>

ReverseOrder ==
    <<"LIMIT", "ORDER_BY", "HAVING", "GROUP_BY", "WHERE", "FROM", "SELECT", "WITH">>

RECURSIVE FirstHeader(_, _, _)
FirstHeader(lines, heads, i) ==
    IF i > Len(lines) THEN i
    ELSE IF lines[i] \in heads THEN i
    ELSE FirstHeader(lines, heads, i + 1)

\* of the lines of an output, those under the keyword line of k, up to the
\* next keyword line
SectionOf(lines, k) ==
    LET from == FirstHeader(lines, HeaderLines(k), 1)
        to   == FirstHeader(lines, AllHeaderLines, from + 1)
    IN SubSeq(lines, from + 1, to - 1)

\* a line of a section that starts in column 0 is a join-marker line: the
\* lines of a group are indented or empty
IsMarkerLine(l) == l # <<>> /\ Head(l) # SP

\* the groups of a section: the marker line that opens each (none for the
\* first) and the lines under it
RECURSIVE ParseGroups(_, _)
ParseGroups(lines, groups) ==
    IF lines = <<>> THEN groups
    ELSE IF IsMarkerLine(Head(lines))
    THEN ParseGroups(Tail(lines), Append(groups, [key |-> Head(lines), lines |-> <<>>]))
    ELSE ParseGroups(Tail(lines),
                     [groups EXCEPT ![Len(groups)].lines = Append(@, Head(lines))])

GroupsOf(lines, k) == ParseGroups(SectionOf(lines, k), <<[key |-> <<>>, lines |-> <<>>]>>)

\* the fragment letters of a text, in order
Letters(text) == SelectSeq(text, LAMBDA ch : ch \in LowerChars)

\* the text of a fragment as the caller wrote it: the value of a pair is
\* its second item
FragmentText(arg) == IF arg.t = "str" THEN arg.v ELSE str(arg.v[2])

RECURSIVE LettersOfArgs(_)
LettersOfArgs(args) ==
    IF args = <<>> THEN <<>>
    ELSE Letters(FragmentText(Head(args))) \o LettersOfArgs(Tail(args))

JoinMarkers ==
    { <<"J","O","I","N">>,
      <<"I","N","N","E","R"," ","J","O","I","N">>,
      <<"L","E","F","T"," ","J","O","I","N">>,
      <<"R","I","G","H","T"," ","J","O","I","N">>,
      <<"F","U","L","L"," ","J","O","I","N">>,
      <<"C","R","O","S","S"," ","J","O","I","N">> }

HasJoinMarker(name) == \E marker \in JoinMarkers : Contains(marker, name)

\* the join tag the fragments of a call get: the clause name of a call
\* that names a join, and none otherwise
TagOf(c) == IF HasJoinMarker(ClauseNameOf(c)) THEN ClauseNameOf(c) ELSE <<>>

\* the calls of h, each with what the properties ask of it: whether it was
\* accepted, the keyword it went to, its join tag and its fragment letters
RECURSIVE Summary(_)
Summary(h) ==
    IF h = <<>> THEN <<>>
    ELSE LET c == Head(h) IN
         << [op |-> c.op, name |-> c.name, args |-> c.args, exc |-> c.exc,
             target |-> IF c.exc = NoExc THEN TargetOf(c) ELSE "",
             tag |-> TagOf(c),
             letters |-> IF c.exc = NoExc THEN LettersOfArgs(c.args) ELSE <<>>] >>
         \o Summary(Tail(h))

\* the fragment letters the accepted calls added to keyword k, in call order
RECURSIVE AddedTo(_, _)
AddedTo(calls, k) ==
    IF calls = <<>> THEN <<>>
    ELSE (IF Head(calls).target = k THEN Head(calls).letters ELSE <<>>)
         \o AddedTo(Tail(calls), k)

CallsTagged(calls, tag) == SelectSeq(calls, LAMBDA c : c.exc = NoExc /\ c.tag = tag)

TagsOf(elements) == {elements[i].join_keyword : i \in 1..Len(elements)}

----------------------------------------------------------------------------
(* C1: a call of add that raises leaves every store as it was.  The code   *)
(* sets the flag and appends the fragments one by one before it reaches    *)
(* the fragment it rejects, so this fails.                                 *)

C1_AddIsAtomic ==
    (last.op = "add" /\ last.exc \in {UnsupportedClause, FlagConflict, InvalidArgument})
        => clauses = last.before

----------------------------------------------------------------------------
(* C2: build emits the keyword lines of the non-empty stores in the order  *)
(* WITH, SELECT, FROM, WHERE, GROUP BY, HAVING, ORDER BY, LIMIT, and the   *)
(* output after a sequence of accepted calls is the output after the same  *)
(* calls regrouped keyword by keyword, in whatever keyword order: two      *)
(* sequences with the same calls per keyword render the same.              *)

C2_RenderOrderFixedByKeyword ==
    AllAccepted(hist) =>
        LET out   == build(clauses)
            calls == Summary(hist)
        IN
        /\ KeywordLines(out) =
              SelectSeq(EnumerationOrder, LAMBDA k : clauses[k].elements # <<>>)
        /\ build(Replay(NewClauses, Regrouped(calls, EnumerationOrder))) = out
        /\ build(Replay(NewClauses, Regrouped(calls, ReverseOrder))) = out

\* WHERE was called before SELECT, and build put SELECT before WHERE
C2_Witness ==
    /\ Len(hist) = 2
    /\ AllAccepted(hist)
    /\ TargetOf(hist[1]) = "WHERE"
    /\ TargetOf(hist[2]) = "SELECT"
    /\ last.op = "build"
    /\ KeywordLines(last.ret) = <<"SELECT", "WHERE">>

----------------------------------------------------------------------------
(* C3 as stated: for every keyword, FROM with join-tagged fragments        *)
(* included, the fragments appear in the output in the order in which they *)
(* were added.  build renders the untagged FROM fragments first and then   *)
(* one group per tag, so a fragment added after a join is rendered before  *)
(* it.                                                                     *)

C3_CallOrderInEveryClause ==
    AllAccepted(hist) =>
        LET lines == LinesOf(build(clauses))
            calls == Summary(hist)
        IN
        \A k \in SQLKeyword :
            LET body == SelectSeq(SectionOf(lines, k), LAMBDA l : ~IsMarkerLine(l))
            IN Letters(join(<<NL>>, body)) = AddedTo(calls, k)

(* C3 amended: for every keyword, the fragments that carry the same join   *)
(* tag (every fragment of a keyword other than FROM carries the empty one) *)
(* appear in the output, under that tag, in the order in which they were   *)
(* added.                                                                  *)

C3_CallOrderInEveryGroup ==
    AllAccepted(hist) =>
        LET lines == LinesOf(build(clauses))
            calls == Summary(hist)
        IN
        \A k \in SQLKeyword :
            LET groups == GroupsOf(lines, k) IN
            /\ TagsOf(clauses[k].elements) \subseteq {groups[i].key : i \in 1..Len(groups)}
            /\ \A i \in 1..Len(groups) :
                  Letters(join(<<NL>>, groups[i].lines)) =
                      AddedTo(CallsTagged(calls, groups[i].key), k)

\* two fragments added under one join marker, an untagged one added between
\* them, and the builder rendered
C3_Witness ==
    LET els == clauses["FROM"].elements IN
    /\ Len(els) >= 3
    /\ els[1].join_keyword # <<>>
    /\ els[2].join_keyword = <<>>
    /\ els[3].join_keyword = els[1].join_keyword
    /\ els[3].value # els[1].value
    /\ IsRender(last)

----------------------------------------------------------------------------
(* C4: build and str change no store, and a build or str that follows a    *)
(* build or str returns the string the one before it returned.             *)

C4_BuildIsPure ==
    [][IsRender(last') =>
          /\ clauses' = clauses
          /\ IsRender(last) => last'.ret = last.ret]_vars

\* str was called right after a build or str, on a builder that renders
\* to something
C4_Witness ==
    /\ last.op = "str"
    /\ last.repeated
    /\ last.ret # <<>>
    /\ clauses = last.before

----------------------------------------------------------------------------
\* the flag _parse_flag reads in the clause name of a call, <<>> for none
FlagOfCall(c) == parse_flag(resolve_join_alias(ClauseNameOf(c)).actual_clause).flag

(* C5: a flag that is set is never replaced or cleared, and a call that    *)
(* carries a flag for a store whose flag is set raises FlagConflict.       *)

C5_FlagSetAtMostOnce ==
    /\ \A k \in SQLKeyword :
          Truthy(last.before[k].flag) => clauses[k].flag = last.before[k].flag
    /\ (/\ IsCall(last)
        /\ FlagOfCall(last) # <<>>
        /\ Truthy(last.before[TargetOf(last)].flag))
          => last.exc = FlagConflict

\* SELECT ALL was added to a store that held DISTINCT
C5_Witness ==
    /\ last.op = "add"
    /\ FlagOfCall(last) = <<"A","L","L">>
    /\ last.before["SELECT"].flag = PyStr(<<"D","I","S","T","I","N","C","T">>)
    /\ last.exc = FlagConflict
    /\ clauses["SELECT"].flag = PyStr(<<"D","I","S","T","I","N","C","T">>)

----------------------------------------------------------------------------
\* the clause name after the join-alias and flag resolution of the design:
\* a name with a join marker is FROM, a name of exactly two tokens, SELECT
\* and one of its flags, is SELECT, any other name is itself
ResolvedName(name) ==
    LET joined == IF HasJoinMarker(name) THEN <<"F","R","O","M">> ELSE name
        tokens == split(joined)
    IN IF /\ Len(tokens) = 2
          /\ tokens[1] = <<"S","E","L","E","C","T">>
          /\ tokens[2] \in {<<"D","I","S","T","I","N","C","T">>, <<"A","L","L">>}
       THEN tokens[1]
       ELSE joined

KeywordTexts ==
    { <<"W","I","T","H">>, <<"S","E","L","E","C","T">>, <<"F","R","O","M">>,
      <<"W","H","E","R","E">>, <<"G","R","O","U","P"," ","B","Y">>,
      <<"H","A","V","I","N","G">>, <<"O","R","D","E","R"," ","B","Y">>,
      <<"L","I","M","I","T">> }

(* C6: add raises UnsupportedClause, and nothing else, for every clause    *)
(* name that is not a keyword after join-alias and flag resolution.  A     *)
(* name without any token (empty, or white space only) makes _parse_flag   *)
(* raise IndexError before the keyword is looked up.                       *)

C6_UnknownNameIsUnsupported ==
    (last.op = "add" /\ ResolvedName(last.name) \notin KeywordTexts)
        => last.exc = UnsupportedClause

----------------------------------------------------------------------------
IsText(x) == x.t = "str"

WellFormed(arg) ==
    \/ IsText(arg)
    \/ /\ arg.t \in {"tuple", "list"}
       /\ Len(arg.v) = 2
       /\ IsText(arg.v[1])
       /\ IsText(arg.v[2])

\* the call got as far as its fragments: the clause name and the flag passed
ReachedFragments(l) ==
    l.op = "add" /\ l.exc \notin {IndexError, UnsupportedClause, FlagConflict}

(* C7: a fragment that is neither a text nor a pair of two texts is        *)
(* rejected with InvalidArgument, so add accepts no call that carries one. *)
(* create checks the type of a plain value and the length of a pair only,  *)
(* and str() turns a None or a number inside a pair into text.             *)

C7_MalformedFragmentRejected ==
    (/\ ReachedFragments(last)
     /\ \E i \in 1..Len(last.args) : ~WellFormed(last.args[i]))
      => last.exc = InvalidArgument

----------------------------------------------------------------------------
\* an accessor name that __getattr__ turns into a call of add
IsClauseAccessor(name) == isupper(name) /\ name \notin ClassAttributes

(* C8: a call of add, or of an accessor, whose clause name contains a join *)
(* marker appends its fragments to the FROM store, each tagged with the    *)
(* clause name as given, and changes no other store.                       *)

C8_JoinGoesToFrom ==
    (/\ IsCall(last)
     /\ last.op = "getattr" => IsClauseAccessor(last.name)
     /\ HasJoinMarker(ClauseNameOf(last)))
      => LET old == last.before["FROM"].elements
             new == clauses["FROM"].elements
         IN /\ last.exc \in {NoExc, InvalidArgument}
            /\ \A k \in SQLKeyword \ {"FROM"} : clauses[k] = last.before[k]
            /\ clauses["FROM"].flag = last.before["FROM"].flag
            /\ Len(new) >= Len(old)
            /\ SubSeq(new, 1, Len(old)) = old
            /\ last.exc = NoExc => Len(new) = Len(old) + Len(last.args)
            /\ \A i \in (Len(old) + 1)..Len(new) :
                  /\ new[i].join_keyword = ClauseNameOf(last)
                  /\ Letters(new[i].value) = Letters(FragmentText(last.args[i - Len(old)]))

\* the accessor LEFT_JOIN added two fragments to a FROM store that held some
C8_Witness ==
    /\ last.op = "getattr"
    /\ last.name = <<"L","E","F","T","_","J","O","I","N">>
    /\ last.exc = NoExc
    /\ last.before["FROM"].elements # <<>>
    /\ Len(clauses["FROM"].elements) = Len(last.before["FROM"].elements) + 2
    /\ clauses["FROM"].elements[Len(clauses["FROM"].elements)].join_keyword =
          <<"L","E","F","T"," ","J","O","I","N">>

----------------------------------------------------------------------------
\* the join tags of the calls that added a fragment, each once, in the
\* order of their first use
RECURSIVE FirstUses(_, _)
FirstUses(calls, seen) ==
    IF calls = <<>> THEN <<>>
    ELSE LET tag   == Head(calls).tag
             fresh == /\ Head(calls).exc = NoExc
                      /\ Head(calls).args # <<>>
                      /\ tag # <<>>
                      /\ tag \notin seen
         IN (IF fresh THEN <<tag>> ELSE <<>>)
            \o FirstUses(Tail(calls), IF fresh THEN seen \cup {tag} ELSE seen)

(* C9: under the FROM line the untagged fragments come first, whenever     *)
(* they were added; then, for each tag in the order in which the tags were *)
(* first used, the tag on a line of its own and under it all fragments     *)
(* added with that tag, in call order, also those of non-adjacent calls.   *)

C9_JoinGroups ==
    (AllAccepted(hist) /\ clauses["FROM"].elements # <<>>)
      => LET groups == GroupsOf(LinesOf(build(clauses)), "FROM")
             calls  == Summary(hist)
             tags   == FirstUses(calls, {})
         IN /\ Len(groups) = 1 + Len(tags)
            /\ Letters(join(<<NL>>, groups[1].lines)) =
                  AddedTo(CallsTagged(calls, <<>>), "FROM")
            /\ \A i \in 1..Len(tags) :
                  /\ groups[i + 1].key = tags[i]
                  /\ groups[i + 1].lines # <<>>
                  /\ Letters(join(<<NL>>, groups[i + 1].lines)) =
                        AddedTo(CallsTagged(calls, tags[i]), "FROM")

\* three calls: a join, another join, the first join again; then a render
C9_Witness ==
    /\ Len(hist) = 3
    /\ AllAccepted(hist)
    /\ TagOf(hist[1]) # <<>>
    /\ TagOf(hist[2]) \notin {<<>>, TagOf(hist[1])}
    /\ TagOf(hist[3]) = TagOf(hist[1])
    /\ IsRender(last)
    /\ Len(GroupsOf(LinesOf(last.ret), "FROM")) = 3

----------------------------------------------------------------------------
Joiner(k) ==
    IF k \in {"WHERE", "HAVING"} THEN <<" ","A","N","D"," ">> ELSE <<","," ">>

(* C10: the formatted elements of a group are joined by " AND " under      *)
(* WHERE and HAVING and by ", " under every other keyword.                 *)

C10_Joiner ==
    LET lines == LinesOf(build(clauses)) IN
    \A k \in SQLKeyword :
        LET groups == GroupsOf(lines, k) IN
        \A i \in 1..Len(groups) :
            LET elements == SelectSeq(clauses[k].elements,
                                      LAMBDA e : e.join_keyword = groups[i].key)
                formatted == [j \in 1..Len(elements) |-> format_element(k, elements[j])]
            IN join(<<NL>>, groups[i].lines) = indent_text(join(Joiner(k), formatted))

\* three WHERE fragments added by two calls, rendered
C10_Witness ==
    /\ Len(hist) = 2
    /\ Len(clauses["WHERE"].elements) = 3
    /\ last.op = "build"
    /\ last.ret = <<"W","H","E","R","E">> \o <<NL>>
                  \o <<" "," "," "," ","a"," ","A","N","D"," ","b"," ","A","N","D"," ","c">>

----------------------------------------------------------------------------
AS == <<" ","A","S"," ">>

\* a text between parentheses on lines of their own, indented by four
Parenthesised(text) == <<"(", NL>> \o indent(text, Spaces4) \o <<NL, ")">>

\* an element under keyword k, its text written as body: the alias first
\* under WITH, last under every other keyword, and the body alone without
AliasSided(k, e, body) ==
    IF e.alias = <<>> THEN body
    ELSE IF k = "WITH" THEN e.alias \o AS \o body
    ELSE body \o AS \o e.alias

\* the lines of the output under keyword k for the group of a tag are the
\* given renderings of the group's elements, joined and indented
GroupRendersAs(lines, k, Rendering(_, _)) ==
    LET groups == GroupsOf(lines, k) IN
    \A i \in 1..Len(groups) :
        LET elements == SelectSeq(clauses[k].elements,
                                  LAMBDA e : e.join_keyword = groups[i].key)
            texts == [j \in 1..Len(elements) |-> Rendering(k, elements[j])]
        IN join(<<NL>>, groups[i].lines) = indent(join(Joiner(k), texts), Spaces4)

(* C11, as claimed: an element with alias a and text t renders as "a AS t" *)
(* under WITH and as "t AS a" under every other keyword, and as t alone    *)
(* without alias.  Under WITH the code writes the text between             *)
(* parentheses, so that WITH(("1", "a")) renders "1 AS (", "a", ")" on     *)
(* three lines and not "1 AS a".                                           *)

C11_AliasDirection ==
    LET lines == LinesOf(build(clauses)) IN
    \A k \in SQLKeyword :
        GroupRendersAs(lines, k, LAMBDA kw, e : AliasSided(kw, e, e.value))

(* C11, amended: under WITH an element renders as "a AS " followed by its  *)
(* text between parentheses, and as the text between parentheses alone     *)
(* without alias; under every other keyword it renders as "t AS a", and as *)
(* t alone without alias.                                                  *)

C11_AliasDirectionParenthesised ==
    LET lines == LinesOf(build(clauses)) IN
    \A k \in SQLKeyword :
        GroupRendersAs(lines, k,
            LAMBDA kw, e : AliasSided(kw, e, IF kw = "WITH" THEN Parenthesised(e.value)
                                             ELSE e.value))

\* a render of a builder holding an aliased element under WITH and one
\* under another keyword
C11_Witness ==
    /\ IsRender(last)
    /\ \E i \in 1..Len(clauses["WITH"].elements) :
          clauses["WITH"].elements[i].alias # <<>>
    /\ \E k \in SQLKeyword \ {"WITH"} : \E i \in 1..Len(clauses[k].elements) :
          clauses[k].elements[i].alias # <<>>
    /\ Contains(<<"1"," ","A","S"," ","(">>, last.ret)
    /\ Contains(<<"b"," ","A","S"," ","2">>, last.ret)

----------------------------------------------------------------------------
\* a name made of upper-case letters and underscores, with a letter in it
IsUpperName(name) ==
    /\ \A i \in 1..Len(name) : name[i] \in UpperChars \cup {"_"}
    /\ \E i \in 1..Len(name) : name[i] \in UpperChars

(* C12: for every accessor NAME made of upper-case letters and underscores *)
(* and every argument list, builder.NAME(args) raises what                 *)
(* builder.add(NAME with each "_" replaced by " ", args) raises and leaves *)
(* the stores that call leaves.  The names of the class attributes are     *)
(* such names, and the normal lookup finds the attribute before            *)
(* __getattr__ is asked: JOIN_ALIASES("a") raises TypeError, where         *)
(* add("JOIN ALIASES", "a") appends a to FROM.                             *)

C12_FluentIsAdd ==
    (last.op = "getattr" /\ IsUpperName(last.name))
      => LET viaAdd == add(last.before, ReplaceChar(last.name, "_", SP), last.args)
         IN /\ last.exc = viaAdd.exc
            /\ clauses = viaAdd.clauses

----------------------------------------------------------------------------
\* the members the class Query and its instances define
DefinedMembers ==
    ClassAttributes
    \cup { <<"a","d","d">>, <<"b","u","i","l","d">>,
           <<"_","c","l","a","u","s","e","s">>,
           <<"_","r","e","s","o","l","v","e","_","j","o","i","n","_","a","l","i","a","s">>,
           <<"_","p","a","r","s","e","_","f","l","a","g">>,
           <<"_","g","r","o","u","p","_","e","l","e","m","e","n","t","s","_","b","y","_","j","o","i","n">>,
           <<"_","f","o","r","m","a","t","_","e","l","e","m","e","n","t">> }

\* a name with a lower-case letter in it: lower-case or mixed-case
HasLower(name) == \E i \in 1..Len(name) : name[i] \in LowerChars

(* C13: an accessor name that is not a member and has a lower-case letter  *)
(* in it fails with AttributeError, and every store is as before.          *)

C13_OtherNameIsNotFound ==
    (/\ last.op = "getattr"
     /\ last.name \notin DefinedMembers
     /\ HasLower(last.name))
      => /\ last.exc = AttributeError
         /\ clauses = last.before

\* a mixed-case and a lower-case accessor on a builder that holds elements
C13_Witness ==
    /\ Len(hist) = 2
    /\ hist[1].exc = NoExc
    /\ clauses # NewClauses
    /\ last.op = "getattr"
    /\ last.exc = AttributeError
    /\ last.name \in { <<"M","i","x","e","d","_","C","a","s","e">>,
                       <<"s","e","l","e","c","t">> }

----------------------------------------------------------------------------
(* C14: the output of build has a keyword line for a keyword exactly when  *)
(* the store of that keyword holds an element, and then one line only; a   *)
(* store that holds a flag and no element has none.  A builder whose       *)
(* stores are all empty renders the empty string, and one with elements    *)
(* under SELECT only renders no FROM and no WHERE line.                    *)

C14_KeywordLineIffElements ==
    LET out   == build(clauses)
        heads == KeywordLines(out)
    IN /\ \A k \in SQLKeyword :
            Cardinality({i \in 1..Len(heads) : heads[i] = k}) =
                (IF clauses[k].elements # <<>> THEN 1 ELSE 0)
       /\ (\A k \in SQLKeyword : clauses[k].elements = <<>>) <=> out = <<>>

\* the render of a builder that holds elements under SELECT only, after a
\* second call that set a flag and added nothing
C14_Witness ==
    /\ IsRender(last)
    /\ Len(hist) = 2
    /\ AllAccepted(hist)
    /\ \E i \in 1..2 : hist[i].args = <<>>
    /\ clauses["SELECT"].elements # <<>>
    /\ \A k \in SQLKeyword \ {"SELECT"} : clauses[k].elements = <<>>
    /\ KeywordLines(last.ret) = <<"SELECT">>

----------------------------------------------------------------------------
\* the fragment letters a store holds, in store order
RECURSIVE LettersOfElements(_)
LettersOfElements(elements) ==
    IF elements = <<>> THEN <<>>
    ELSE Letters(Head(elements).value) \o LettersOfElements(Tail(elements))

\* the calls made so far are accepted calls on builder b only: with each
\* call returning its builder they are the calls of one chain on b
IsChainOn(b) ==
    /\ hist # <<>>
    /\ \A i \in 1..Len(hist) : hist[i].on = b /\ hist[i].exc = NoExc

(* C15: a call of add or of an accessor that does not raise returns the    *)
(* builder it was called on; and after a chain of calls on a builder, that *)
(* builder holds under every keyword the fragments of all calls of the     *)
(* chain that went to the keyword, in call order.                          *)

C15_CallsReturnSelf ==
    /\ (IsCall(last) /\ last.exc = NoExc) => returned = last.on
    /\ \A b \in Builders :
          IsChainOn(b) =>
              /\ returned \in {b, NoObject}
              /\ \A k \in SQLKeyword :
                    LettersOfElements(StoresOf(b)[k].elements) =
                        AddedTo(Summary(hist), k)

\* a chain of three calls on p, the last one returning p
C15_Witness ==
    /\ Len(hist) = 3
    /\ IsChainOn("p")
    /\ IsCall(last)
    /\ returned = "p"
    /\ clauses = NewClauses
    /\ Cardinality({k \in SQLKeyword : other[k].elements # <<>>}) = 3

----------------------------------------------------------------------------
\* the calls of h made on builder b
CallsOn(h, b) == SelectSeq(h, LAMBDA c : c.on = b)

(* C16: whatever the interleaving of the calls on the two builders, the    *)
(* stores of each builder are what its own calls alone leave on a new      *)
(* builder, and what build returns for it is the output of those stores.   *)

C16_BuildersIndependent ==
    \A b \in Builders :
        LET alone == Replay(NewClauses, CallsOn(hist, b)) IN
        /\ StoresOf(b) = alone
        /\ (last.op = "build" /\ last.on = b) => last.ret = build(alone)

\* calls on q, on p and on q again, leaving different stores, then q built
C16_Witness ==
    /\ Len(hist) = 3
    /\ AllAccepted(hist)
    /\ hist[1].on = "q" /\ hist[2].on = "p" /\ hist[3].on = "q"
    /\ other # NewClauses
    /\ \A k \in SQLKeyword : clauses[k].elements = <<>> \/ other[k].elements = <<>>
    /\ last.op = "build"
    /\ last.on = "q"
    /\ last.ret # <<>>

----------------------------------------------------------------------------
(* C17: the keyword line of a store that holds elements is the keyword     *)
(* followed by a space and the flag when the store's flag is set, and the  *)
(* bare keyword otherwise; and under the line of a flagged store come the  *)
(* fragments of all calls that went to the keyword, in call order, those   *)
(* of the calls without flag too.                                          *)

C17_FlagOnKeywordLine ==
    LET lines == LinesOf(build(clauses)) IN
    \A k \in SQLKeyword :
        clauses[k].elements # <<>> =>
            /\ SelectSeq(lines, LAMBDA l : l \in HeaderLines(k)) =
                  << IF Truthy(clauses[k].flag)
                     THEN KeywordValue(k) \o <<SP>> \o clauses[k].flag.v
                     ELSE KeywordValue(k) >>
            /\ Truthy(clauses[k].flag) =>
                  Letters(join(<<NL>>, SectionOf(lines, k))) = AddedTo(Summary(hist), k)

\* SELECT("a") and then add("SELECT DISTINCT", "b", "c"), rendered
C17_Witness ==
    /\ Len(hist) = 2
    /\ AllAccepted(hist)
    /\ FlagOfCall(hist[1]) = <<>>
    /\ FlagOfCall(hist[2]) = <<"D","I","S","T","I","N","C","T">>
    /\ IsRender(last)
    /\ last.ret = <<"S","E","L","E","C","T"," ","D","I","S","T","I","N","C","T">>
                  \o <<NL>> \o <<" "," "," "," ","a",","," ","b",","," ","c">>

----------------------------------------------------------------------------
\* the tokens of the clause name _parse_flag receives for a call
TokensOf(c) == split(resolve_join_alias(ClauseNameOf(c)).actual_clause)

(* C18: a clause name of more than two tokens is not read as keyword and   *)
(* flag: the call raises UnsupportedClause, and no flag and no element of  *)
(* any store changes.  The code reads the first two tokens of every name   *)
(* of two and more tokens, so that add("SELECT DISTINCT x", "a") sets      *)
(* DISTINCT on SELECT and appends a.  (A name without token is the case of *)
(* C6.)                                                                    *)

----------------------------------------------------------------------------
(* C19: when every element of the FROM store carries a join tag, the line  *)
(* after the FROM line is the first join-marker line, and no line of the   *)
(* output is empty: a group without elements adds no line.  The code       *)
(* formats the untagged group whether it holds elements or not, and its    *)
(* empty text becomes an empty line: add("LEFT JOIN", "b") alone renders   *)
(* "FROM", "", "LEFT JOIN", "    b".                                       *)

C19_NoLineForEmptyGroup ==
    LET lines == LinesOf(build(clauses))
        from  == clauses["FROM"].elements
    IN /\ \A i \in 1..Len(lines) : lines[i] # <<>>
       /\ (from # <<>> /\ \A i \in 1..Len(from) : from[i].join_keyword # <<>>)
            => LET section == SectionOf(lines, "FROM")
               IN section # <<>> /\ section[1] = from[1].join_keyword

----------------------------------------------------------------------------
\* a call whose clause name is a keyword without registered flags followed
\* by a flag
IsFlagOnUnflaggable(c) ==
    LET tokens == TokensOf(c) IN
    /\ c.op = "getattr" => IsClauseAccessor(c.name)
    /\ Len(tokens) = 2
    /\ IsKeywordValue(tokens[1])
    /\ KeywordOf(tokens[1]) \notin DOMAIN FLAGGABLE_KEYWORDS
    /\ IsFlagValue(tokens[2])

(* C20: a call whose clause name is a keyword without registered flags     *)
(* followed by a flag ("FROM DISTINCT", "WHERE ALL") raises                *)
(* UnsupportedClause and changes no flag and no element of any store; a    *)
(* render after it returns what the calls before it alone give.            *)

C20_FlagOnUnflaggableKeyword ==
    /\ (IsCall(last) /\ IsFlagOnUnflaggable(last))
         => /\ last.exc = UnsupportedClause
            /\ clauses = last.before
    /\ (IsRender(last) /\ hist # <<>> /\ IsFlagOnUnflaggable(hist[Len(hist)]))
         => last.ret = build(Replay(NewClauses, SubSeq(hist, 1, Len(hist) - 1)))

\* add("SELECT DISTINCT", "b"), add("FROM DISTINCT", "a") or
\* add("WHERE ALL", "b"), and a render that still shows SELECT DISTINCT
C20_Witness ==
    /\ Len(hist) = 2
    /\ hist[1].exc = NoExc
    /\ FlagOfCall(hist[1]) = <<"D","I","S","T","I","N","C","T">>
    /\ IsFlagOnUnflaggable(hist[2])
    /\ hist[2].exc = UnsupportedClause
    /\ IsRender(last)
    /\ last.ret = <<"S","E","L","E","C","T"," ","D","I","S","T","I","N","C","T">>
                  \o <<NL>> \o <<" "," "," "," ","b">>

----------------------------------------------------------------------------
\* the keywords whose text is two words
TwoWordKeywords == {"GROUP_BY", "ORDER_BY"}

\* a call whose clause name is the text of keyword k
NamesKeyword(c, k) ==
    /\ c.op = "getattr" => IsClauseAccessor(c.name)
    /\ ClauseNameOf(c) = KeywordValue(k)

(* C21: a call of add, or of an accessor, whose clause name is "GROUP BY"  *)
(* or "ORDER BY" is not read as keyword and flag: it appends its fragments *)
(* to the store of that keyword, changes no flag and no other store, and   *)
(* the output has the fragments under the line "GROUP BY" or "ORDER BY".   *)

C21_TwoWordKeywords ==
    \A k \in TwoWordKeywords :
        (IsCall(last) /\ NamesKeyword(last, k)) =>
            LET old   == last.before[k].elements
                new   == clauses[k].elements
                lines == LinesOf(build(clauses))
            IN /\ last.exc = NoExc
               /\ Len(new) = Len(old) + Len(last.args)
               /\ SubSeq(new, 1, Len(old)) = old
               /\ LettersOfElements(SubSeq(new, Len(old) + 1, Len(new))) =
                     LettersOfArgs(last.args)
               /\ \A j \in SQLKeyword :
                     /\ clauses[j].flag = last.before[j].flag
                     /\ j # k => clauses[j] = last.before[j]
               /\ Len(SelectSeq(lines, LAMBDA l : l = KeywordValue(k))) = 1
               /\ Letters(join(<<NL>>, SectionOf(lines, k))) = LettersOfElements(new)

\* add("ORDER BY", ("1", "a"), "b") after ORDER_BY("c")
C21_Witness ==
    /\ Len(hist) = 2
    /\ AllAccepted(hist)
    /\ hist[1].op = "getattr" /\ NamesKeyword(hist[1], "ORDER_BY")
    /\ last.op = "add" /\ NamesKeyword(last, "ORDER_BY")
    /\ build(clauses) = <<"O","R","D","E","R"," ","B","Y">> \o <<NL>>
                        \o <<" "," "," "," ","c",","," ","a"," ","A","S"," ","1",","," ","b">>

----------------------------------------------------------------------------
\* the lines of a wrapped element: "a AS (" or "(", the lines of its text
\* behind four spaces, and ")"
WrappedLines(e) ==
    LET text == SplitNL(e.value)
        open == IF e.alias # <<>> THEN e.alias \o AS \o <<"(">> ELSE <<"(">>
    IN <<open>> \o [i \in 1..Len(text) |-> Spaces4 \o text[i]] \o << <<")">> >>

\* the lines of the wrapped elements in a row: ", " ties the last line of
\* an element to the first line of the next
RECURSIVE JoinedWrappedLines(_, _)
JoinedWrappedLines(elements, acc) ==
    IF elements = <<>> THEN acc
    ELSE LET w == WrappedLines(Head(elements)) IN
         JoinedWrappedLines(Tail(elements),
             IF acc = <<>> THEN w
             ELSE SubSeq(acc, 1, Len(acc) - 1)
                  \o << acc[Len(acc)] \o <<",", SP>> \o Head(w) >> \o Tail(w))

(* C22: an element is marked as subquery exactly when it is in the WITH    *)
(* store; the WITH elements render as "a AS (" (or "(" without alias), the *)
(* lines of the text behind four spaces, and ")", all behind the four      *)
(* spaces of the group; no line under another keyword has a parenthesis.   *)

C22_WithIsWrapped ==
    LET lines == LinesOf(build(clauses)) IN
    /\ \A k \in SQLKeyword : \A i \in 1..Len(clauses[k].elements) :
          clauses[k].elements[i].is_subquery <=> k = "WITH"
    /\ clauses["WITH"].elements # <<>> =>
          LET wrapped == JoinedWrappedLines(clauses["WITH"].elements, <<>>)
          IN SectionOf(lines, "WITH") = [i \in 1..Len(wrapped) |-> Spaces4 \o wrapped[i]]
    /\ \A k \in SQLKeyword \ {"WITH"} :
          LET section == SectionOf(lines, k) IN
          \A i \in 1..Len(section) : \A j \in 1..Len(section[i]) :
              section[i][j] \notin {"(", ")"}

\* WITH(("1", "  a\n    b"), "c") and a fragment of two lines under another
\* keyword, rendered
C22_Witness ==
    /\ IsRender(last)
    /\ Len(hist) = 2
    /\ Len(clauses["WITH"].elements) = 2
    /\ \E k \in SQLKeyword \ {"WITH"} : \E i \in 1..Len(clauses[k].elements) :
          Contains(<<NL>>, clauses[k].elements[i].value)
    /\ SectionOf(LinesOf(last.ret), "WITH") =
          << <<" "," "," "," ","1"," ","A","S"," ","(">>,
             <<" "," "," "," "," "," "," "," ","a">>,
             <<" "," "," "," "," "," "," "," "," "," ","b">>,
             <<" "," "," "," ",")",","," ","(">>,
             <<" "," "," "," "," "," "," "," ","c">>,
             <<" "," "," "," ",")">> >>

----------------------------------------------------------------------------
(* C23: the output has no newline at its end, and under every keyword the  *)
(* lines of a group that holds elements are the lines of its joined        *)
(* elements, each behind exactly four spaces, the blank lines inside a     *)
(* fragment too; every other line is a keyword line or a join-marker line  *)
(* and starts in column 0.  The code leaves a blank line as it is:         *)
(* WHERE("a\n\nb") renders "WHERE", "    a", "", "    b".                  *)

C23_EveryLineIndented ==
    LET out   == build(clauses)
        lines == LinesOf(out)
    IN /\ out # <<>> => out[Len(out)] # NL
       /\ \A k \in SQLKeyword :
             LET groups == GroupsOf(lines, k) IN
             \A i \in 1..Len(groups) :
                 LET elements == SelectSeq(clauses[k].elements,
                                           LAMBDA e : e.join_keyword = groups[i].key)
                     texts == [j \in 1..Len(elements) |-> format_element(k, elements[j])]
                     body  == SplitNL(join(Joiner(k), texts))
                 IN /\ groups[i].key # <<>> => Head(groups[i].key) # SP
                    /\ elements # <<>> =>
                          groups[i].lines = [j \in 1..Len(body) |-> Spaces4 \o body[j]]

----------------------------------------------------------------------------
(* C24: the text and the alias of every stored element are normalised:     *)
(* neither starts or ends with whitespace, no indentation is common to all *)
(* their lines, and normalising them again returns them unchanged; the     *)
(* element of a fragment given as a pair has the first item as its alias   *)
(* and the second as its text, the element of a string has no alias.       *)

IsNormalised(text) ==
    \/ text = <<>>
    \/ /\ ~IsSpace(text[1])
       /\ ~IsSpace(text[Len(text)])
       /\ \E i \in 1..Len(LinesOf(text)) :
             LinesOf(text)[i] # <<>> /\ ~IsSpace(LinesOf(text)[i][1])

\* the fragments the accepted calls gave to keyword k, in call order
RECURSIVE ArgsTo(_, _)
ArgsTo(calls, k) ==
    IF calls = <<>> THEN <<>>
    ELSE (IF Head(calls).target = k THEN Head(calls).args ELSE <<>>)
         \o ArgsTo(Tail(calls), k)

Visible(text) == SelectSeq(text, LAMBDA ch : ~IsSpace(ch))

C24_ElementsNormalised ==
    \A k \in SQLKeyword :
        LET elements == clauses[k].elements
            given    == ArgsTo(Summary(hist), k)
        IN /\ AllAccepted(hist) => Len(elements) = Len(given)
           /\ \A i \in 1..Len(elements) :
                 LET e == elements[i] IN
                 /\ IsNormalised(e.value)
                 /\ IsNormalised(e.alias)
                 /\ normalize_sql(PyStr(e.value)) = e.value
                 /\ normalize_sql(PyStr(e.alias)) = e.alias
                 /\ AllAccepted(hist) =>
                       IF given[i].t = "str"
                       THEN e.alias = <<>> /\ Visible(e.value) = Visible(given[i].v)
                       ELSE /\ Visible(e.alias) = Visible(str(given[i].v[1]))
                            /\ Visible(e.value) = Visible(str(given[i].v[2]))

\* a pair given with padding and indentation is stored trimmed, the first
\* item as the alias
C24_Witness ==
    /\ IsCall(last) /\ last.exc = NoExc
    /\ \E i \in 1..Len(last.args) : last.args[i] = pPadded
    /\ \E i \in 1..Len(clauses["SELECT"].elements) :
          /\ clauses["SELECT"].elements[i].alias = <<"2">>
          /\ clauses["SELECT"].elements[i].value = <<"a", NL, "b">>

----------------------------------------------------------------------------
(* C25: a call rejected with UnsupportedClause or with FlagConflict        *)
(* changes nothing, whatever fragments it carried: the elements and the    *)
(* flag of the eight stores are what they were before the call, and build  *)
(* returns the string it returned before.                                  *)

C25_RejectedCallChangesNothing ==
    IsCall(last) /\ last.exc \in {UnsupportedClause, FlagConflict} =>
        /\ \A k \in SQLKeyword :
              /\ clauses[k].elements = last.before[k].elements
              /\ clauses[k].flag = last.before[k].flag
        /\ build(clauses) = build(last.before)

\* a second flagged call carrying a fragment was rejected on a flagged
\* SELECT store
C25_Witness ==
    /\ IsCall(last) /\ last.exc = FlagConflict
    /\ last.args # <<>>
    /\ Truthy(clauses["SELECT"].flag)
    /\ clauses["SELECT"].elements # <<>>

----------------------------------------------------------------------------
(* C26: only the SELECT store can hold a flag, and the flag it holds is    *)
(* DISTINCT or ALL; the stores of the seven other keywords have no flag    *)
(* after any sequence of add, fluent and build calls.                      *)

C26_OnlySelectIsFlagged ==
    \A k \in SQLKeyword :
        IF k = "SELECT"
        THEN clauses[k].flag \in {PyNone, PyStr(FlagValue("DISTINCT")), PyStr(FlagValue("ALL"))}
        ELSE clauses[k].flag = PyNone

\* calls naming a flag after FROM or WHERE were made and rejected, and the
\* SELECT store holds a flag
C26_Witness ==
    /\ Truthy(clauses["SELECT"].flag)
    /\ \E i \in 1..Len(hist) :
          /\ IsFlagOnUnflaggable(hist[i])
          /\ hist[i].exc = UnsupportedClause

----------------------------------------------------------------------------
(* C27: an element is marked as subquery exactly when it is stored in the  *)
(* WITH store, and an element with a join-keyword tag is stored only in    *)
(* the FROM store, the tag being the clause name of a join call made       *)
(* before; the elements of the seven other stores have the empty tag.      *)

C27_SubqueryAndTagPlacement ==
    \A k \in SQLKeyword :
        \A i \in 1..Len(clauses[k].elements) :
            LET e == clauses[k].elements[i] IN
            /\ e.is_subquery <=> k = "WITH"
            /\ k # "FROM" => e.join_keyword = <<>>
            /\ e.join_keyword # <<>> =>
                  \E j \in 1..Len(hist) :
                      /\ hist[j].exc = NoExc
                      /\ HasJoinMarker(ClauseNameOf(hist[j]))
                      /\ e.join_keyword = ClauseNameOf(hist[j])

\* the WITH store holds subquery elements while the FROM store holds an
\* element tagged by a join call
C27_Witness ==
    /\ clauses["WITH"].elements # <<>>
    /\ \E i \in 1..Len(clauses["FROM"].elements) :
          clauses["FROM"].elements[i].join_keyword = <<"L","E","F","T"," ","J","O","I","N">>

----------------------------------------------------------------------------
(* C28: stores only grow.  Across every operation, accepted or rejected    *)
(* add, fluent call or build, the elements a store held before are a       *)
(* prefix of those it holds after, a flag that is set stays set with its   *)
(* value, and there are always exactly eight stores, one per keyword.      *)

IsPrefix(s, t) == Len(s) <= Len(t) /\ SubSeq(t, 1, Len(s)) = s

C28_StoresOnlyGrow ==
    /\ DOMAIN clauses = SQLKeyword
    /\ Cardinality(SQLKeyword) = 8
    /\ [][ /\ DOMAIN clauses' = SQLKeyword
           /\ \A k \in SQLKeyword :
                 /\ IsPrefix(clauses[k].elements, clauses'[k].elements)
                 /\ Truthy(clauses[k].flag) => clauses'[k].flag = clauses[k].flag ]_vars

\* a call that raised on a later fragment had appended an earlier one to a
\* store that already held elements
C28_Witness ==
    /\ IsCall(last) /\ last.exc = InvalidArgument
    /\ \E k \in SQLKeyword :
          /\ last.before[k].elements # <<>>
          /\ Len(clauses[k].elements) > Len(last.before[k].elements)

----------------------------------------------------------------------------
\* a call whose clause name is SELECT followed by one of its flags
IsFlaggedSelect(c) ==
    LET tokens == split(ClauseNameOf(c)) IN
    /\ IsCall(c)
    /\ c.op = "getattr" => IsClauseAccessor(c.name)
    /\ Len(tokens) = 2
    /\ tokens[1] = KeywordValue("SELECT")
    /\ IsFlagValue(tokens[2])

\* a call whose clause name is the bare SELECT
IsPlainSelect(c) ==
    /\ IsCall(c)
    /\ c.op = "getattr" => IsClauseAccessor(c.name)
    /\ split(ClauseNameOf(c)) = <<KeywordValue("SELECT")>>

(* C29: a flagged call on SELECT without fragments, made on a store        *)
(* without flag, succeeds and records the flag; made on the empty store it *)
(* leaves the output of build as it was, without a SELECT line.  Every     *)
(* later flagged call on SELECT raises FlagConflict, and the fragments of  *)
(* a later plain SELECT call are rendered under the flagged keyword line.  *)

C29_FlagWithoutFragments ==
    LET lines == LinesOf(build(clauses)) IN
    /\ (/\ IsFlaggedSelect(last) /\ last.args = <<>>
        /\ ~Truthy(last.before["SELECT"].flag))
         => /\ last.exc = NoExc
            /\ clauses["SELECT"].flag = PyStr(split(ClauseNameOf(last))[2])
            /\ clauses["SELECT"].elements = last.before["SELECT"].elements
            /\ last.before["SELECT"].elements = <<>> =>
                  /\ build(clauses) = build(last.before)
                  /\ \A i \in 1..Len(lines) : lines[i] \notin HeaderLines("SELECT")
    /\ \A i \in 1..Len(hist) : \A j \in (i + 1)..Len(hist) :
          (/\ IsFlaggedSelect(hist[i]) /\ hist[i].args = <<>> /\ hist[i].exc = NoExc)
            => /\ IsFlaggedSelect(hist[j]) => hist[j].exc = FlagConflict
               /\ (IsPlainSelect(hist[j]) /\ hist[j].args # <<>> /\ hist[j].exc = NoExc)
                    => \E n \in 1..Len(lines) :
                          lines[n] = KeywordValue("SELECT") \o <<SP>>
                                        \o split(ClauseNameOf(hist[i]))[2]

\* SELECT_DISTINCT() and then SELECT("a"), rendered under SELECT DISTINCT
C29_Witness ==
    /\ Len(hist) = 2
    /\ IsFlaggedSelect(hist[1]) /\ hist[1].args = <<>> /\ hist[1].exc = NoExc
    /\ hist[1].op = "getattr"
    /\ IsPlainSelect(hist[2]) /\ hist[2].exc = NoExc
    /\ last.op = "build"
    /\ last.ret = <<"S","E","L","E","C","T"," ","D","I","S","T","I","N","C","T">>
                  \o <<NL>> \o <<" "," "," "," ","a">>

----------------------------------------------------------------------------
\* how often ch occurs in text
Count(text, ch) == Len(SelectSeq(text, LAMBDA x : x = ch))

FragmentChars == LowerChars \cup {"0", "1", "2", "3", "4", "5", "6", "7", "8", "9"}

\* the texts and aliases of the elements, one after the other
RECURSIVE StoredText(_)
StoredText(elements) ==
    IF elements = <<>> THEN <<>>
    ELSE Head(elements).alias \o Head(elements).value \o StoredText(Tail(elements))

(* C30: no fragment is lost or duplicated at render.  Under every keyword  *)
(* the lines that are not join-marker lines hold each character of the     *)
(* texts and aliases of the store as often as the store does, so that, the *)
(* text of every fragment here being one letter, the output holds as many  *)
(* formatted elements as the store has elements; and the join-marker lines *)
(* under FROM are the distinct non-empty tags of the FROM store, each once.*)

C30_NothingLostOrDuplicated ==
    LET lines == LinesOf(build(clauses)) IN
    \A k \in SQLKeyword :
        LET section  == SectionOf(lines, k)
            markers  == SelectSeq(section, IsMarkerLine)
            body     == join(<<NL>>, SelectSeq(section, LAMBDA l : ~IsMarkerLine(l)))
            elements == clauses[k].elements
            tags     == TagsOf(elements) \ {<<>>}
        IN /\ \A ch \in FragmentChars :
                 Count(body, ch) = Count(StoredText(elements), ch)
           /\ (\A i \in 1..Len(elements) : Len(Letters(elements[i].value)) = 1)
                 => Len(Letters(body)) = Len(elements)
           /\ Len(markers) = Cardinality(tags)
           /\ {markers[i] : i \in 1..Len(markers)} = tags

\* the FROM store holds an untagged element and elements of two joins, one
\* of the joins holding two
C30_Witness ==
    LET elements == clauses["FROM"].elements IN
    /\ Cardinality(TagsOf(elements)) = 3
    /\ <<>> \in TagsOf(elements)
    /\ Len(elements) >= 4
    /\ build(clauses) # <<>>

====
